---- MODULE Spec2Model ----
(***************************************************************************)
(* A model of src/glados.py: the Glados voice assistant.  Three threads    *)
(* share the flag self.processing, the transcript self.messages, the two   *)
(* queues llm_queue and tts_queue and the sounddevice output stream:       *)
(*   - the main thread (_listen_and_respond), which assembles utterances   *)
(*     from (sample, vad_confidence) pairs and hands them to ASR;          *)
(*   - the LLM thread (process_LLM);                                       *)
(*   - the TTS thread (process_TTS_thread).                                *)
(* Python strings are modelled as sequences of one-character strings, so   *)
(* that split, join, lower and the regular expressions are computed.       *)
(***************************************************************************)
EXTENDS Integers, Sequences, FiniteSets, TLC

(***************************************************************************)
(* Bounds of the model.                                                    *)
(***************************************************************************)
\* Utterances the user starts in one run.
MaxUtterances == 2
\* Frames after which the user stops adding voiced frames to an utterance.
MaxSamples == 3
\* Records the LLM server sends in one streamed response.
MaxTokens == 2

(***************************************************************************)
(* Configuration (glados.config.Config, read through self._conf).          *)
(***************************************************************************)
\* PAUSE_LIMIT // VAD_SIZE: unvoiced frames that end an utterance.
PauseFrames == 2
\* BUFFER_SIZE // VAD_SIZE: capacity of the pre-activation buffer.
BufferCap == 1
SIMILARITY_THRESHOLD == 3
WAKE_WORD == <<"g", "l", "a", "d", "o", "s">>
STT_HALLUCINATIONS == << <<"t", "h", "a", "n", "k", "s", "!">> >>
LLM_STOPWORDS == << <<"<", "|", ">">> >>
AI_OUTPUT_TO_IGNORE == << <<"-", " ">> >>
INITIAL_MESSAGES == << [role |-> "system", content |-> <<"G">>] >>

(***************************************************************************)
(* Python string and list primitives.                                      *)
(***************************************************************************)
UpperCase == <<"A", "B", "C", "D", "E", "F", "G", "H", "I", "J", "K", "L", "M",
               "N", "O", "P", "Q", "R", "S", "T", "U", "V", "W", "X", "Y", "Z">>
LowerCase == <<"a", "b", "c", "d", "e", "f", "g", "h", "i", "j", "k", "l", "m",
               "n", "o", "p", "q", "r", "s", "t", "u", "v", "w", "x", "y", "z">>

\* str.lower() on one character.
LowerChar(c) ==
    IF \E i \in 1..26 : UpperCase[i] = c
    THEN LowerCase[CHOOSE i \in 1..26 : UpperCase[i] = c]
    ELSE c

\* str.lower()
Lower(s) == [i \in 1..Len(s) |-> LowerChar(s[i])]

\* The characters str.split() splits on.
IsSpace(c) == c \in {" ", "\t", "\n"}

\* str.split(): the maximal runs of non-whitespace characters, in order.
RECURSIVE SplitFrom(_, _, _)
SplitFrom(s, i, word) ==
    IF i > Len(s)
    THEN IF word = <<>> THEN <<>> ELSE <<word>>
    ELSE IF IsSpace(s[i])
         THEN (IF word = <<>> THEN <<>> ELSE <<word>>) \o SplitFrom(s, i + 1, <<>>)
         ELSE SplitFrom(s, i + 1, Append(word, s[i]))

Split(s) == SplitFrom(s, 1, <<>>)

\* sep.join(parts) for a list of strings.
RECURSIVE Join(_, _)
Join(sep, parts) ==
    IF parts = <<>> THEN <<>>
    ELSE IF Len(parts) = 1 THEN parts[1]
    ELSE parts[1] \o sep \o Join(sep, Tail(parts))

\* Iterating a str yields its characters, each a str of length 1.
Chars(s) == [i \in 1..Len(s) |-> <<s[i]>>]

\* tokens[:n]
Take(seq, n) == SubSeq(seq, 1, IF n > Len(seq) THEN Len(seq) ELSE n)

Min2(a, b) == IF a < b THEN a ELSE b

\* Levenshtein.distance(a, b)
distance(a, b) ==
    LET d[i \in 0..Len(a), j \in 0..Len(b)] ==
            IF i = 0 THEN j
            ELSE IF j = 0 THEN i
            ELSE Min2(Min2(d[i - 1, j] + 1, d[i, j - 1] + 1),
                      d[i - 1, j - 1] + (IF a[i] = b[j] THEN 0 ELSE 1))
    IN d[Len(a), Len(b)]

\* min() of a non-empty list of integers.
MinOf(S) == CHOOSE x \in S : \A y \in S : x <= y

(***************************************************************************)
(* Sentence cleanup (_process_sentence) and stream decoding.               *)
(***************************************************************************)
\* str.removesuffix(suffix)
removesuffix(s, suffix) ==
    IF /\ suffix # <<>>
       /\ Len(s) >= Len(suffix)
       /\ SubSeq(s, Len(s) - Len(suffix) + 1, Len(s)) = suffix
    THEN SubSeq(s, 1, Len(s) - Len(suffix))
    ELSE s

\* for stopword in LLM_STOPWORDS: sentence = sentence.removesuffix(stopword)
RECURSIVE RemoveStopwords(_, _)
RemoveStopwords(s, words) ==
    IF words = <<>> THEN s
    ELSE RemoveStopwords(removesuffix(s, Head(words)), Tail(words))

\* The end of the lazy match of  open .*? close  starting at i (s[i] = open):
\* the first later index holding close with no newline before it, 0 if none.
ClosingIndex(s, i, close) ==
    LET js == {j \in (i + 1)..Len(s) :
                  /\ s[j] = close
                  /\ \A k \in (i + 1)..(j - 1) : s[k] # "\n"}
    IN IF js = {} THEN 0 ELSE MinOf(js)

\* re.sub(r"\*.*?\*|\(.*?\)", "", s), scanning from index i.
RECURSIVE StripSpansFrom(_, _)
StripSpansFrom(s, i) ==
    IF i > Len(s) THEN <<>>
    ELSE LET close == IF s[i] = "*" THEN "*" ELSE ")"
             j == IF s[i] \in {"*", "("} THEN ClosingIndex(s, i, close) ELSE 0
         IN IF j # 0
            THEN StripSpansFrom(s, j + 1)
            ELSE <<s[i]>> \o StripSpansFrom(s, i + 1)

StripSpans(s) == StripSpansFrom(s, 1)

Digits == {"0", "1", "2", "3", "4", "5", "6", "7", "8", "9"}

\* The character class [a-zA-Z0-9.,?!;:'" -].
AllowedChar(c) ==
    \/ \E i \in 1..26 : c = UpperCase[i] \/ c = LowerCase[i]
    \/ c \in Digits
    \/ c \in {".", ",", "?", "!", ";", ":", "'", "\"", " ", "-"}

\* re.sub(r"[^a-zA-Z0-9.,?!;:'\" -]", "", s)
FilterChars(s) == SelectSeq(s, AllowedChar)

\* The string _process_sentence builds from the token list.
CleanSentence(current_sentence) ==
    FilterChars(StripSpans(RemoveStopwords(Join(<<>>, current_sentence),
                                           LLM_STOPWORDS))) \o <<" ">>

InList(x, list) == \E i \in 1..Len(list) : list[i] = x

\* The pause tokens of process_LLM.
PauseTokens == { <<".">>, <<"!">>, <<"?">>, <<":">>, <<";">>, <<"?", "!">> }

\* _process_line: the token of a record, None (here <<>>) for a stop record.
process_line(line) == IF ~line.stop THEN line.content ELSE <<>>

(***************************************************************************)
(* ASR post-filter and wake word gate (_process_detected_audio).           *)
(***************************************************************************)
\* any(h.lower() == detected_text.lower() for h in STT_HALLUCINATIONS)
IsHallucination(text) ==
    /\ text # <<>>
    /\ \E i \in 1..Len(STT_HALLUCINATIONS) :
          Lower(STT_HALLUCINATIONS[i]) = Lower(text)

\* _wakeword_detected raises ValueError (min of an empty list) when the text
\* has no token.
WakewordRaises(text) == Split(text) = <<>>

\* _wakeword_detected, for a text with at least one token.
wakeword_detected(text, wake) ==
    LET words == Split(text)
    IN MinOf({distance(Lower(words[i]), wake) : i \in 1..Len(words)})
          < SIMILARITY_THRESHOLD

(***************************************************************************)
(* Interruption accounting (clip_interrupted_sentence).                    *)
(***************************************************************************)
\* Python round() of the fraction num/den >= 0: ties go to the even integer.
RoundHalfEven(num, den) ==
    LET q == num \div den
        r2 == 2 * (num % den)
    IN IF r2 < den THEN q
       ELSE IF r2 > den THEN q + 1
       ELSE IF q % 2 = 0 THEN q ELSE q + 1

INTERRUPTED == <<"<", "I", "N", "T", "E", "R", "R", "U", "P", "T", "E", "D", ">">>

clip_interrupted_sentence(generated_text, percentage_played) ==
    LET tokens == Split(generated_text)
        words_to_print == RoundHalfEven(percentage_played * Len(tokens), 100)
        text == Join(<<" ">>, Take(tokens, words_to_print))
    IN IF words_to_print < Len(tokens) THEN text \o INTERRUPTED ELSE text

(***************************************************************************)
(* Inputs of the model.                                                    *)
(***************************************************************************)
\* What asr_model.transcribe may return: "", " ", "Thanks!", "glado hi", "hello".
Transcripts ==
    { <<>>,
      <<" ">>,
      <<"T", "h", "a", "n", "k", "s", "!">>,
      <<"g", "l", "a", "d", "o", " ", "h", "i">>,
      <<"h", "e", "l", "l", "o">> }

\* The configured wake word: None (no element) or WAKE_WORD.
WakeWords == { <<>>, <<WAKE_WORD>> }

\* The configurations of a run; data are the values a sample can hold.  A
\* BUFFER_SIZE below VAD_SIZE gives the buffer a maxsize of 0.
Configs ==
    {[wake_word |-> w, pause_frames |-> PauseFrames, buffer_cap |-> BufferCap,
      data |-> {0}] : w \in WakeWords}
    \cup {[wake_word |-> <<>>, pause_frames |-> PauseFrames, buffer_cap |-> 0,
           data |-> {0}]}

\* The content fields the LLM server streams.
Tokens == { <<"H", "i">>, <<".">> }

\* The records of a streamed response.
Records ==
    {[content |-> t, stop |-> FALSE] : t \in Tokens}
        \cup {[content |-> <<>>, stop |-> TRUE]}

\* Outcomes of llama.request.
RequestOutcomes == {"ok", "not_ok", "connection_error"}

\* Values of percentage_played when a clip is interrupted.
Percentages == {50, 100}

\* The end of stream token.
EOS == <<"<", "E", "O", "S", ">">>

(***************************************************************************)
(* State.                                                                  *)
(***************************************************************************)
VARIABLES
    conf,               \* self._conf and self.wake_word
    buffer,             \* self.buffer, the pre-activation frames
    samples,            \* self.samples
    recording_started,  \* self.recording_started
    gap_counter,        \* self.gap_counter
    capturing,          \* self.input_stream is started
    asm_pc,             \* position of the main thread
    utterances,         \* recordings started so far
    detected_text,      \* _process_detected_audio: detected_text
    processing,         \* self.processing
    messages,           \* self.messages
    llm_queue,          \* self.llm_queue
    tts_queue,          \* self.tts_queue
    shutdown_event,     \* self.shutdown_event
    stream,             \* the sounddevice output stream and the clip it plays
    llm_pc,             \* position of the LLM thread
    sentence,           \* process_LLM: sentence
    ntok,               \* records read from the current response
    prompt,             \* process_LLM: the messages the last prompt rendered
    answered,           \* per request issued, whether its response was OK
    tts_pc,             \* position of the TTS thread
    generated_text,     \* process_TTS_thread: generated_text
    assistant_text,     \* process_TTS_thread: assistant_text
    system_text,        \* process_TTS_thread: system_text
    finished,           \* process_TTS_thread: finished
    interrupted,        \* process_TTS_thread: interrupted
    drained,            \* turn of the clip during which tts_queue was last replaced
    clock,              \* time since self.processing fell, in units of PAUSE_TIME
    handed              \* sentences the TTS thread took since its last commit

asm_vars == <<conf, buffer, samples, recording_started, gap_counter,
              capturing, asm_pc, utterances, detected_text>>
llm_vars == <<llm_pc, sentence, ntok, prompt, answered>>
tts_vars == <<tts_pc, generated_text, assistant_text, system_text, finished,
              interrupted, handed, drained>>
vars == <<asm_vars, llm_vars, tts_vars, processing, messages, llm_queue,
          tts_queue, shutdown_event, stream, clock>>

\* The user turns in the transcript: the number of the current turn.
RECURSIVE CountRole(_, _)
CountRole(msgs, role) ==
    IF msgs = <<>> THEN 0
    ELSE (IF Head(msgs).role = role THEN 1 ELSE 0) + CountRole(Tail(msgs), role)

UserTurns == CountRole(messages, "user")

\* Locals that the code overwrites before it reads them again (prompt,
\* sentence, generated_text, system_text) are cleared when they go dead.
NoItem == [kind |-> "none", val |-> <<>>, turn |-> 0, at |-> 0]

\* clock.ticks counts, up to 2, the periods of PAUSE_TIME that have passed
\* since a voiced frame last turned self.processing from True to False;
\* clock.slept says that the wait the TTS thread is in (time.sleep(PAUSE_TIME)
\* or tts_queue.get(timeout=PAUSE_TIME)) began before the last tick.
ClockZero == [ticks |-> 0, slept |-> FALSE]

\* The output stream after sd.stop() or the end of the clip.
Stopped == [active |-> FALSE, turn |-> 0]

\* Glados.__init__: the threads are started and the start announcement plays.
Init ==
    /\ conf \in Configs
    /\ buffer = <<>>
    /\ samples = <<>>
    /\ recording_started = FALSE
    /\ gap_counter = 0
    /\ capturing = TRUE
    /\ asm_pc = "idle"
    /\ utterances = 0
    /\ detected_text = <<>>
    /\ processing = FALSE
    /\ messages = INITIAL_MESSAGES
    /\ llm_queue = <<>>
    /\ tts_queue = <<>>
    /\ shutdown_event = FALSE
    /\ stream = [active |-> TRUE, turn |-> 0]
    /\ llm_pc = "loop"
    /\ sentence = <<>>
    /\ ntok = 0
    /\ prompt = <<>>
    /\ answered = <<>>
    /\ tts_pc = "loop"
    /\ generated_text = NoItem
    /\ assistant_text = <<>>
    /\ system_text = <<>>
    /\ finished = FALSE
    /\ interrupted = FALSE
    /\ clock = ClockZero
    /\ handed = <<>>
    /\ drained = 0

(***************************************************************************)
(* The main thread: _listen_and_respond.                                   *)
(***************************************************************************)
\* queue.Queue.full(): a maxsize of 0 means no limit.
BufferFull(buf) == 0 < conf.buffer_cap /\ conf.buffer_cap <= Len(buf)

\* buffer.get() when full, then buffer.put(sample).
BufferPut(buf, frame) ==
    Append(IF BufferFull(buf) THEN Tail(buf) ELSE buf, frame)

\* manage_pre_activation_buffer without  self.processing = False.
manage_pre_activation_keeps_flag(frame) ==
    /\ buffer' = BufferPut(buffer, frame)
    /\ IF frame.voiced
       THEN /\ stream' = Stopped
            /\ samples' = buffer'
            /\ recording_started' = TRUE
            /\ utterances' = utterances + 1
            /\ UNCHANGED <<processing, clock>>
       ELSE UNCHANGED <<stream, processing, clock, samples, recording_started,
                        utterances>>
    /\ UNCHANGED <<gap_counter, capturing, asm_pc>>

\* manage_pre_activation_buffer with  self.samples = list(self.buffer.queue)
\* taken before  self.buffer.put(sample).
manage_pre_activation_copies_first(frame) ==
    /\ buffer' = BufferPut(buffer, frame)
    /\ IF frame.voiced
       THEN /\ stream' = Stopped
            /\ processing' = FALSE
            /\ clock' = IF processing THEN ClockZero ELSE clock
            /\ samples' = buffer
            /\ recording_started' = TRUE
            /\ utterances' = utterances + 1
       ELSE UNCHANGED <<stream, processing, clock, samples, recording_started,
                        utterances>>
    /\ UNCHANGED <<gap_counter, capturing, asm_pc>>

\* _manage_pre_activation_buffer
manage_pre_activation_buffer(frame) ==
    /\ buffer' = BufferPut(buffer, frame)
    /\ IF frame.voiced
       THEN /\ stream' = Stopped
            /\ processing' = FALSE
            /\ clock' = IF processing THEN ClockZero ELSE clock
            /\ samples' = buffer'
            /\ recording_started' = TRUE
            /\ utterances' = utterances + 1
       ELSE UNCHANGED <<stream, processing, clock, samples, recording_started,
                        utterances>>
    /\ UNCHANGED <<gap_counter, capturing, asm_pc>>

\* process_activated_audio without  self.gap_counter = 0  on a voiced frame.
process_activated_keeps_gap(frame) ==
    /\ samples' = Append(samples, frame)
    /\ IF ~frame.voiced
       THEN /\ gap_counter' = gap_counter + 1
            /\ IF gap_counter' >= conf.pause_frames
               THEN capturing' = FALSE /\ asm_pc' = "asr"
               ELSE UNCHANGED <<capturing, asm_pc>>
       ELSE UNCHANGED <<gap_counter, capturing, asm_pc>>
    /\ UNCHANGED <<buffer, stream, processing, clock, recording_started,
                   utterances>>

\* _process_activated_audio; on the pause limit _process_detected_audio stops
\* the input stream and calls ASR.
process_activated_audio(frame) ==
    /\ samples' = Append(samples, frame)
    /\ IF ~frame.voiced
       THEN /\ gap_counter' = gap_counter + 1
            /\ IF gap_counter' >= conf.pause_frames
               THEN capturing' = FALSE /\ asm_pc' = "asr"
               ELSE UNCHANGED <<capturing, asm_pc>>
       ELSE gap_counter' = 0 /\ UNCHANGED <<capturing, asm_pc>>
    /\ UNCHANGED <<buffer, stream, processing, clock, recording_started,
                   utterances>>

\* The frames the run still delivers: no new utterance after MaxUtterances,
\* no voiced frame in an utterance of MaxSamples frames, and no frame into
\* a pre-activation buffer of MaxSamples frames.
FrameAllowed(frame) ==
    IF recording_started
    THEN frame.voiced => Len(samples) < MaxSamples
    ELSE /\ frame.voiced => utterances < MaxUtterances
         /\ Len(buffer) < MaxSamples

\* _handle_audio_sample on the next (sample, vad_confidence) of sample_queue.
HandleAudioSample ==
    /\ asm_pc = "idle"
    /\ \E d \in conf.data, v \in BOOLEAN :
          LET frame == [data |-> d, voiced |-> v]
          IN /\ FrameAllowed(frame)
             /\ IF ~recording_started
                THEN manage_pre_activation_buffer(frame)
                ELSE process_activated_audio(frame)
    /\ UNCHANGED <<conf, detected_text, llm_vars, tts_vars, messages, llm_queue,
                   tts_queue, shutdown_event>>

\* The branch _process_detected_audio takes on detected_text: "raise" is the
\* ValueError of _wakeword_detected, "accept" the two branches that put the
\* text on llm_queue, "miss" the wake word miss, "hallucination" and "empty"
\* the two branches that only set self.processing.
AsrBranch(text, wake) ==
    IF text # <<>> /\ ~IsHallucination(text)
    THEN IF wake # <<>>
         THEN IF WakewordRaises(text) THEN "raise"
              ELSE IF wakeword_detected(text, wake[1]) THEN "accept"
              ELSE "miss"
         ELSE "accept"
    ELSE IF IsHallucination(text) THEN "hallucination"
    ELSE "empty"

\* AsrBranch, tabulated over the inputs of the model.
BranchOf == [wake \in WakeWords, text \in Transcripts |-> AsrBranch(text, wake)]

\* The transcripts a run draws from.  Without a wake word every text that is
\* neither empty nor a hallucination takes the same branch: one stands for all.
AsrOutputs(wake) ==
    IF wake = <<>>
    THEN {text \in Transcripts :
             BranchOf[wake, text] = "accept"
                 => BranchOf[<<WAKE_WORD>>, text] = "accept"}
    ELSE Transcripts

\* _process_detected_audio from the return of self.asr to the first write of
\* self.processing.
AsrReturns ==
    /\ asm_pc = "asr"
    /\ \E text \in AsrOutputs(conf.wake_word) :
          LET branch == BranchOf[conf.wake_word, text]
          IN /\ detected_text' = text
             /\ CASE branch = "raise" ->
                       /\ asm_pc' = "crashed"
                       /\ UNCHANGED <<llm_queue, processing, clock>>
                  [] branch = "accept" ->
                       /\ llm_queue' = Append(llm_queue, text)
                       /\ asm_pc' = "set_flag"
                       /\ UNCHANGED <<processing, clock>>
                  [] branch = "miss" ->
                       /\ asm_pc' = "reset"
                       /\ UNCHANGED <<llm_queue, processing, clock>>
                  [] branch \in {"hallucination", "empty"} ->
                       /\ processing' = TRUE
                       /\ clock' = ClockZero
                       /\ asm_pc' = "reset"
                       /\ UNCHANGED llm_queue
    /\ UNCHANGED <<conf, buffer, samples, recording_started, gap_counter,
                   capturing, utterances, llm_vars, tts_vars, messages, tts_queue,
                   shutdown_event, stream>>

\* self.processing = True after llm_queue.put.
SetFlag ==
    /\ asm_pc = "set_flag"
    /\ processing' = TRUE
    /\ clock' = ClockZero
    /\ asm_pc' = "reset"
    /\ UNCHANGED <<conf, detected_text, buffer, samples, recording_started,
                   gap_counter, capturing, utterances, llm_vars, tts_vars,
                   messages, llm_queue, tts_queue, shutdown_event, stream>>

\* reset() without  self.buffer.queue.clear().
Reset_keeps_buffer ==
    /\ asm_pc = "reset"
    /\ recording_started' = FALSE
    /\ samples' = <<>>
    /\ gap_counter' = 0
    /\ asm_pc' = "start"
    /\ UNCHANGED <<conf, detected_text, buffer, capturing, utterances, llm_vars,
                   tts_vars, processing, messages, llm_queue, tts_queue,
                   shutdown_event, stream, clock>>

\* reset()
Reset ==
    /\ asm_pc = "reset"
    /\ recording_started' = FALSE
    /\ samples' = <<>>
    /\ gap_counter' = 0
    /\ buffer' = <<>>
    /\ asm_pc' = "start"
    /\ UNCHANGED <<conf, detected_text, capturing, utterances, llm_vars,
                   tts_vars, processing, messages, llm_queue, tts_queue,
                   shutdown_event, stream, clock>>

\* input_stream.start() at the end of _process_detected_audio.
StartCapture ==
    /\ asm_pc = "start"
    /\ capturing' = TRUE
    /\ detected_text' = <<>>
    /\ asm_pc' = "idle"
    /\ UNCHANGED <<conf, buffer, samples, recording_started, gap_counter,
                   utterances, llm_vars, tts_vars, processing, messages, llm_queue,
                   tts_queue, shutdown_event, stream, clock>>

\* KeyboardInterrupt in _listen_and_respond: shutdown_event.set().
KeyboardInterrupt ==
    /\ asm_pc \in {"idle", "asr"}
    /\ shutdown_event' = TRUE
    /\ asm_pc' = "exited"
    /\ UNCHANGED <<conf, detected_text, buffer, samples, recording_started, gap_counter,
                   capturing, utterances, llm_vars, tts_vars, processing, messages,
                   llm_queue, tts_queue, stream, clock>>

(***************************************************************************)
(* The LLM thread: process_LLM.                                            *)
(***************************************************************************)
\* An entry of tts_queue: a str ("str"), or the token list of line 480
\* ("list"); turn is the user turn it was generated for, and at the number of
\* records of the response that were read when it was put.
Item(kind, val) == [kind |-> kind, val |-> val, turn |-> UserTurns, at |-> ntok]

\* LLMLoop as  while True: the loop does not test shutdown_event.
LLMLoop_ignores_shutdown ==
    /\ llm_pc = "loop"
    /\ llm_pc' = "get"
    /\ UNCHANGED <<asm_vars, tts_vars, sentence, ntok, prompt, answered,
                   processing, messages, llm_queue, tts_queue, shutdown_event,
                   stream, clock>>

\* while not self.shutdown_event.is_set()
LLMLoop ==
    /\ llm_pc = "loop"
    /\ llm_pc' = IF shutdown_event THEN "done" ELSE "get"
    /\ UNCHANGED <<asm_vars, tts_vars, sentence, ntok, prompt, answered,
                   processing, messages, llm_queue, tts_queue, shutdown_event,
                   stream, clock>>

\* llm_queue.get times out: queue.Empty, sleep, next iteration.
LLMTimeout ==
    /\ llm_pc = "get"
    /\ llm_queue = <<>>
    /\ llm_pc' = "loop"
    /\ UNCHANGED <<asm_vars, tts_vars, sentence, ntok, prompt, answered,
                   processing, messages, llm_queue, tts_queue, shutdown_event,
                   stream, clock>>

\* detected_text = llm_queue.get(); messages.append(user turn)
LLMGet ==
    /\ llm_pc = "get"
    /\ llm_queue # <<>>
    /\ llm_queue' = Tail(llm_queue)
    /\ messages' = Append(messages, [role |-> "user", content |-> Head(llm_queue)])
    /\ llm_pc' = "render"
    /\ UNCHANGED <<asm_vars, tts_vars, sentence, ntok, prompt, answered,
                   processing, tts_queue, shutdown_event, stream, clock>>

\* prompt = self.template.render(messages=self.messages, ...): the template
\* iterates over the list, one entry a step, and reads an entry that is
\* appended before the iteration ends.
LLMRender ==
    /\ llm_pc = "render"
    /\ IF Len(prompt) < Len(messages)
       THEN prompt' = Append(prompt, messages[Len(prompt) + 1]) /\ llm_pc' = "render"
       ELSE llm_pc' = "request" /\ UNCHANGED prompt
    /\ UNCHANGED <<asm_vars, tts_vars, sentence, ntok, answered, processing,
                   messages, llm_queue, tts_queue, shutdown_event, stream, clock>>

\* LLMRequest without the  continue  of line 460: a response that is not OK
\* is streamed like an OK one.
LLMRequest_streams_any_response ==
    /\ llm_pc = "request"
    /\ prompt' = <<>>
    /\ \E outcome \in RequestOutcomes :
          /\ answered' = Append(answered, outcome = "ok")
          /\ IF outcome # "connection_error"
             THEN sentence' = <<>> /\ ntok' = 0 /\ llm_pc' = "stream"
             ELSE llm_pc' = "loop" /\ UNCHANGED <<sentence, ntok>>
    /\ UNCHANGED <<asm_vars, tts_vars, processing, messages, llm_queue,
                   tts_queue, shutdown_event, stream, clock>>

\* self.llama.request(json=data, stream=True) and the test of response.ok.
LLMRequest ==
    /\ llm_pc = "request"
    /\ prompt' = <<>>
    /\ \E outcome \in RequestOutcomes :
          /\ answered' = Append(answered, outcome = "ok")
          /\ IF outcome = "ok"
             THEN sentence' = <<>> /\ ntok' = 0 /\ llm_pc' = "stream"
             ELSE llm_pc' = "loop" /\ UNCHANGED <<sentence, ntok>>
    /\ UNCHANGED <<asm_vars, tts_vars, processing, messages, llm_queue,
                   tts_queue, shutdown_event, stream, clock>>

\* One iteration of  for line in response.iter_lines()  up to the call of
\* _process_sentence, or the end of the response.
LLMLine ==
    /\ llm_pc = "stream"
    /\ \/ llm_pc' = "tail" /\ UNCHANGED <<sentence, ntok>>
       \/ /\ ntok < MaxTokens
          /\ IF processing = FALSE
             THEN llm_pc' = "tail" /\ UNCHANGED <<sentence, ntok>>
             ELSE \E line \in Records :
                     LET next_token == process_line(line)
                     IN /\ ntok' = ntok + 1
                        /\ IF next_token # <<>>
                           THEN /\ sentence' = Append(sentence, next_token)
                                /\ llm_pc' = IF next_token \in PauseTokens
                                             THEN "flush" ELSE "stream"
                           ELSE UNCHANGED <<sentence, llm_pc>>
    /\ UNCHANGED <<asm_vars, tts_vars, prompt, answered, processing, messages,
                   llm_queue, tts_queue, shutdown_event, stream, clock>>

\* LLMFlush that puts the sentence at the head of tts_queue.
LLMFlush_puts_in_front ==
    /\ llm_pc = "flush"
    /\ LET cleaned == CleanSentence(sentence)
       IN tts_queue' = IF InList(cleaned, AI_OUTPUT_TO_IGNORE)
                       THEN tts_queue
                       ELSE <<Item("str", cleaned)>> \o tts_queue
    /\ sentence' = <<>>
    /\ llm_pc' = "stream"
    /\ UNCHANGED <<asm_vars, tts_vars, ntok, prompt, answered, processing,
                   messages, llm_queue, shutdown_event, stream, clock>>

\* _process_sentence(sentence); sentence = []
LLMFlush ==
    /\ llm_pc = "flush"
    /\ LET cleaned == CleanSentence(sentence)
       IN tts_queue' = IF InList(cleaned, AI_OUTPUT_TO_IGNORE)
                       THEN tts_queue
                       ELSE Append(tts_queue, Item("str", cleaned))
    /\ sentence' = <<>>
    /\ llm_pc' = "stream"
    /\ UNCHANGED <<asm_vars, tts_vars, ntok, prompt, answered, processing,
                   messages, llm_queue, shutdown_event, stream, clock>>

\* if self.processing and sentence: self.tts_queue.put(sentence)
LLMTail ==
    /\ llm_pc = "tail"
    /\ tts_queue' = IF processing /\ sentence # <<>>
                    THEN Append(tts_queue, Item("list", sentence))
                    ELSE tts_queue
    /\ llm_pc' = "eos"
    /\ UNCHANGED <<asm_vars, tts_vars, sentence, ntok, prompt, answered,
                   processing, messages, llm_queue, shutdown_event, stream, clock>>

\* self.tts_queue.put("<EOS>")
LLMEos ==
    /\ llm_pc = "eos"
    /\ tts_queue' = Append(tts_queue, Item("str", EOS))
    /\ sentence' = <<>>
    /\ ntok' = 0
    /\ llm_pc' = "loop"
    /\ UNCHANGED <<asm_vars, tts_vars, prompt, answered, processing, messages,
                   llm_queue, shutdown_event, stream, clock>>

(***************************************************************************)
(* The TTS thread: process_TTS_thread.                                     *)
(***************************************************************************)
IsEOS(item) == item.kind = "str" /\ item.val = EOS

\* The TTS thread has acted: it is not in a wait that began before the last
\* tick of the clock.
Awake == [clock EXCEPT !.slept = FALSE]

\* while not self.shutdown_event.is_set()
TTSLoop ==
    /\ UNCHANGED drained
    /\ tts_pc = "loop"
    /\ clock' = Awake
    /\ tts_pc' = IF shutdown_event THEN "done" ELSE "get"
    /\ UNCHANGED <<asm_vars, llm_vars, generated_text, assistant_text,
                   system_text, finished, interrupted, handed,
                   processing, messages, llm_queue, tts_queue, shutdown_event,
                   stream>>

\* tts_queue.get(timeout=PAUSE_TIME) times out: queue.Empty.
TTSTimeout ==
    /\ UNCHANGED drained
    /\ tts_pc = "get"
    /\ tts_queue = <<>>
    /\ tts_pc' = "loop"
    /\ clock' = Awake
    /\ UNCHANGED <<asm_vars, llm_vars, generated_text, assistant_text,
                   system_text, finished, interrupted, handed,
                   processing, messages, llm_queue, tts_queue, shutdown_event,
                   stream>>

\* generated_text = tts_queue.get(): "<EOS>" sets finished, an empty string is
\* skipped, anything else goes to the synthesizer.
TTSGet ==
    /\ UNCHANGED drained
    /\ tts_pc = "get"
    /\ clock' = Awake
    /\ tts_queue # <<>>
    /\ generated_text' = Head(tts_queue)
    /\ tts_queue' = Tail(tts_queue)
    /\ IF IsEOS(generated_text')
       THEN finished' = TRUE /\ tts_pc' = "commit" /\ UNCHANGED handed
       ELSE IF generated_text'.val = <<>>
            THEN /\ tts_pc' = IF finished THEN "commit" ELSE "loop"
                 /\ UNCHANGED <<finished, handed>>
            ELSE /\ tts_pc' = "synth"
                 /\ handed' = Append(handed, generated_text')
                 /\ UNCHANGED finished
    /\ UNCHANGED <<asm_vars, llm_vars, assistant_text, system_text, interrupted,
                   processing, messages, llm_queue, shutdown_event, stream>>

\* audio = tts.generate_speech_audio(generated_text); sd.play(audio) unless
\* the audio is empty.  The synthesizer is given a str; what it does with the
\* token list of line 480 is not defined: it returns audio or raises.
TTSSynth ==
    /\ UNCHANGED drained
    /\ tts_pc = "synth"
    /\ clock' = Awake
    /\ \/ \E total_samples \in {0, 1} :
             IF total_samples # 0
             THEN /\ stream' = [active |-> TRUE, turn |-> generated_text.turn]
                  /\ tts_pc' = "monitor"
                  /\ UNCHANGED generated_text
             ELSE /\ tts_pc' = IF finished THEN "commit" ELSE "loop"
                  /\ generated_text' = NoItem
                  /\ UNCHANGED stream
       \/ /\ generated_text.kind = "list"
          /\ tts_pc' = "crashed"
          /\ UNCHANGED <<generated_text, stream>>
    /\ UNCHANGED <<asm_vars, llm_vars, assistant_text, system_text, finished,
                   interrupted, handed, processing, messages, llm_queue,
                   tts_queue, shutdown_event>>

\* Lines 342-354 after percentage_played returned (was_interrupted, pct).
\* A token list has no split(): clip_interrupted_sentence raises AttributeError.
AfterPlay(was_interrupted, pct) ==
    /\ interrupted' = was_interrupted
    /\ IF was_interrupted /\ generated_text.kind = "list"
       THEN /\ tts_pc' = "crashed"
            /\ UNCHANGED <<system_text, finished, assistant_text, generated_text>>
       ELSE /\ IF was_interrupted
               THEN /\ system_text' =
                          Append(assistant_text,
                                 clip_interrupted_sentence(generated_text.val, pct))
                    /\ finished' = TRUE
               ELSE UNCHANGED <<system_text, finished>>
            /\ assistant_text' = Append(assistant_text, generated_text)
            /\ generated_text' = IF finished' THEN generated_text ELSE NoItem
            /\ tts_pc' = IF finished' THEN "commit" ELSE "loop"

\* percentage_played: while sd.get_stream().active
TTSMonitor ==
    /\ UNCHANGED drained
    /\ tts_pc = "monitor"
    /\ clock' = Awake
    /\ IF stream.active
       THEN /\ tts_pc' = "sleep"
            /\ UNCHANGED <<assistant_text, system_text, finished, interrupted,
                           generated_text>>
       ELSE \E pct \in {100} : AfterPlay(FALSE, pct)
    /\ UNCHANGED <<asm_vars, llm_vars, handed,
                   processing, messages, llm_queue, tts_queue, shutdown_event,
                   stream>>

\* percentage_played: time.sleep(PAUSE_TIME), then the test of self.processing.
TTSPoll ==
    /\ tts_pc = "sleep"
    /\ drained' = IF processing = FALSE THEN generated_text.turn ELSE drained
    /\ clock' = Awake
    /\ IF processing = FALSE
       THEN /\ stream' = Stopped
            /\ tts_queue' = <<>>
            /\ \E pct \in Percentages : AfterPlay(TRUE, pct)
       ELSE /\ tts_pc' = "monitor"
            /\ UNCHANGED <<stream, tts_queue, assistant_text, system_text,
                           finished, interrupted, generated_text>>
    /\ UNCHANGED <<asm_vars, llm_vars, handed,
                   processing, messages, llm_queue, shutdown_event>>

\* " ".join(x) for the element x of assistant_text: a str yields its
\* characters, a list its tokens.
JoinedContent(first) ==
    Join(<<" ">>, IF first.kind = "str" THEN Chars(first.val) ELSE first.val)

\* if finished: assistant_text = assistant_text[0]; messages.append(...)
TTSCommit ==
    /\ UNCHANGED drained
    /\ tts_pc = "commit"
    /\ clock' = Awake
    /\ IF assistant_text = <<>>
       THEN /\ tts_pc' = "crashed"
            /\ UNCHANGED <<messages, assistant_text, finished, interrupted,
                           handed, system_text, generated_text>>
       ELSE /\ messages' = Append(messages,
                                  [role |-> "assistant",
                                   content |-> JoinedContent(assistant_text[1])])
            /\ system_text' = <<>>
            /\ generated_text' = NoItem
            /\ assistant_text' = <<>>
            /\ handed' = <<>>
            /\ finished' = FALSE
            /\ interrupted' = FALSE
            /\ tts_pc' = "loop"
    /\ UNCHANGED <<asm_vars, llm_vars, processing, llm_queue, tts_queue,
                   shutdown_event, stream>>

\* The clip that is playing comes to its end.
ClipEnds ==
    /\ stream.active
    /\ stream' = Stopped
    /\ UNCHANGED <<asm_vars, llm_vars, tts_vars, processing, messages,
                   llm_queue, tts_queue, shutdown_event, clock>>

\* A period of PAUSE_TIME passes while self.processing is False.  Steps that
\* take no time are taken first, and a wait of PAUSE_TIME ends before the
\* second tick after it began; ASR, synthesis and the LLM server take any time.
Tick ==
    /\ processing = FALSE
    /\ utterances > 0
    /\ clock.ticks < 2
    /\ ~clock.slept
    /\ asm_pc \notin {"set_flag", "reset", "start"}
    /\ llm_pc \notin {"loop", "render", "flush", "tail", "eos"}
    /\ tts_pc \notin {"loop", "monitor", "commit"}
    /\ tts_pc = "get" => tts_queue = <<>>
    /\ clock' = [ticks |-> clock.ticks + 1, slept |-> tts_pc \in {"get", "sleep"}]
    /\ UNCHANGED <<asm_vars, llm_vars, tts_vars, processing, messages, llm_queue,
                   tts_queue, shutdown_event, stream>>

Next ==
    \/ HandleAudioSample
    \/ AsrReturns
    \/ SetFlag
    \/ Reset
    \/ StartCapture
    \/ KeyboardInterrupt
    \/ LLMLoop
    \/ LLMTimeout
    \/ LLMGet
    \/ LLMRender
    \/ LLMRequest
    \/ LLMLine
    \/ LLMFlush
    \/ LLMTail
    \/ LLMEos
    \/ TTSLoop
    \/ TTSTimeout
    \/ TTSGet
    \/ TTSSynth
    \/ TTSMonitor
    \/ TTSPoll
    \/ TTSCommit
    \/ ClipEnds
    \/ Tick

Spec == Init /\ [][Next]_vars

\* The steps of the LLM thread and of the TTS thread.
LLMNext ==
    \/ LLMLoop
    \/ LLMTimeout
    \/ LLMGet
    \/ LLMRender
    \/ LLMRequest
    \/ LLMLine
    \/ LLMFlush
    \/ LLMTail
    \/ LLMEos

TTSNext ==
    \/ TTSLoop
    \/ TTSTimeout
    \/ TTSGet
    \/ TTSSynth
    \/ TTSMonitor
    \/ TTSPoll
    \/ TTSCommit

\* The state after construction in a configuration without a wake word.
FairInit ==
    /\ Init
    /\ conf.wake_word = <<>>
    /\ conf.buffer_cap = BufferCap

\* The threads started in __init__ are scheduled fairly: a worker that can
\* take a step takes one, every call it makes returns (queue timeouts, the
\* response of the LLM server, the synthesizer), and a clip that is playing
\* comes to its end.  The run is one without a wake word.
FairSpec ==
    /\ FairInit
    /\ [][Next]_vars
    /\ WF_vars(LLMNext)
    /\ WF_vars(TTSNext)
    /\ WF_vars(ClipEnds)

(***************************************************************************)
(* Properties.                                                             *)
(***************************************************************************)
\* The roles of the turns appended after INITIAL_MESSAGES.
AppendedRoles ==
    [i \in 1..(Len(messages) - Len(INITIAL_MESSAGES)) |->
        messages[Len(INITIAL_MESSAGES) + i].role]

\* Every entry of tts_queue, and the clip that is playing, belongs to the
\* latest user turn.
OnlyCurrentTurn ==
    /\ \A i \in 1..Len(tts_queue) :
          ~IsEOS(tts_queue[i]) => tts_queue[i].turn = UserTurns
    /\ stream.active => stream.turn = UserTurns

\* C1: after INITIAL_MESSAGES the roles in self.messages alternate user,
\* assistant, user, assistant, ... in every reachable state.
C1_RolesAlternate ==
    \A i \in 1..Len(AppendedRoles) :
        AppendedRoles[i] = IF i % 2 = 1 THEN "user" ELSE "assistant"

\* C2: once the LLM thread has appended a user turn, no clip of an earlier
\* turn is playing or is started later, and at the append no sentence of an
\* earlier turn is left in tts_queue.
C2_UtterancePreemptsSpeech ==
    /\ llm_pc = "render" /\ prompt = <<>> => OnlyCurrentTurn
    /\ UserTurns > 0 /\ stream.active => stream.turn = UserTurns

\* C3: when self.processing has been False for two periods of PAUSE_TIME,
\* no audio is playing and tts_queue is empty.
C3_CancelledWithinTwoPolls ==
    /\ processing = FALSE
    /\ recording_started
    /\ asm_pc \in {"idle", "asr"}
    /\ clock.ticks >= 2
    => ~stream.active /\ tts_queue = <<>>

\* C4: whenever _handle_audio_sample has returned with recording_started set,
\* or the recorded utterance is at ASR, self.processing is False.
C4_RecordingRevokesFlag ==
    asm_pc \in {"idle", "asr"} /\ recording_started => processing = FALSE

\* C4 witness: a second utterance is being recorded after the first one was
\* accepted and had set the flag.
C4_Witness ==
    /\ asm_pc = "idle"
    /\ recording_started
    /\ utterances = 2
    /\ UserTurns = 1
    /\ processing = FALSE

\* The text of the sentences in a list of tts_queue entries.
Texts(items) == [i \in 1..Len(items) |-> items[i].val]

\* The clipped text ends with the marker of clip_interrupted_sentence.
HasMarker(text) ==
    /\ Len(text) >= Len(INTERRUPTED)
    /\ SubSeq(text, Len(text) - Len(INTERRUPTED) + 1, Len(text)) = INTERRUPTED

\* C5: the assistant turn committed after a clip was cut short is the fully
\* spoken sentences followed by the clipped remainder of the interrupted one
\* with its <INTERRUPTED> marker (system_text of lines 350-351), joined with
\* single spaces.
C5_InterruptedTurnRecorded ==
    [][/\ tts_pc = "commit"
       /\ interrupted
       /\ HasMarker(system_text[Len(system_text)])
       /\ tts_pc' # "commit"
       => messages' =
            Append(messages,
                   [role |-> "assistant",
                    content |->
                       Join(<<" ">>,
                            Append(Texts(SubSeq(system_text, 1, Len(system_text) - 1)),
                                   system_text[Len(system_text)]))])]_vars

\* C6: the commit on <EOS> of an uninterrupted turn, all of whose sentences
\* were spoken, appends one assistant turn whose content is every sentence
\* handed to the synthesizer for the turn, in order, joined with single
\* spaces, and empties assistant_text.
C6_EosCommitsAllSentences ==
    [][/\ tts_pc = "commit"
       /\ ~interrupted
       /\ handed # <<>>
       /\ \A i \in 1..Len(handed) : handed[i].kind = "str"
       /\ assistant_text = handed
       /\ tts_pc' # "commit"
       => /\ messages' =
               Append(messages,
                      [role |-> "assistant",
                       content |-> Join(<<" ">>, Texts(handed))])
          /\ assistant_text' = <<>>]_vars

\* C7: one user turn and one request per text taken from llm_queue, and the
\* prompt of the request ends with the user turn just appended.
C7_PromptEndsWithUserTurn ==
    /\ UserTurns - Len(answered) = IF llm_pc \in {"render", "request"} THEN 1 ELSE 0
    /\ llm_pc = "request"
       => /\ prompt # <<>>
          /\ prompt[Len(prompt)].role = "user"

\* A transcript the dialogue rejects: empty, a STT hallucination, or, with a
\* wake word, without a token within SIMILARITY_THRESHOLD of the wake word.
Rejected(text, wake) ==
    \/ text = <<>>
    \/ IsHallucination(text)
    \/ /\ wake # <<>>
       /\ \A i \in 1..Len(Split(text)) :
             distance(Lower(Split(text)[i]), wake[1]) >= SIMILARITY_THRESHOLD

\* Rejected, tabulated over the inputs of the model.
RejectedOf == [wake \in WakeWords, text \in Transcripts |-> Rejected(text, wake)]

\* C8: when ASR returns a rejected transcript, nothing is put on llm_queue,
\* self.messages is unchanged and _process_detected_audio goes on to reset()
\* and input_stream.start().
C8_RejectedHasNoEffect ==
    [][/\ asm_pc = "asr"
       /\ asm_pc' \notin {"asr", "exited"}
       /\ RejectedOf[conf.wake_word, detected_text']
       => /\ llm_queue' = llm_queue
          /\ messages' = messages
          /\ asm_pc' = "reset"]_vars

\* Every entry of tts_queue, and every sentence the TTS thread holds, was
\* generated for a request that got an OK response.
OnlyAnsweredTurns ==
    /\ \A i \in 1..Len(tts_queue) :
          /\ tts_queue[i].turn \in 1..Len(answered)
          /\ answered[tts_queue[i].turn]
    /\ \A i \in 1..Len(assistant_text) : answered[assistant_text[i].turn]
    /\ generated_text # NoItem => answered[generated_text.turn]

\* C9: a request that fails leaves tts_queue and self.messages as they are
\* and returns the LLM thread to the top of its loop; no entry of tts_queue
\* and no sentence of an assistant turn ever belongs to a failed request.
C9_FailedRequestAbandonsTurn ==
    /\ []OnlyAnsweredTurns
    /\ [][llm_pc = "request" /\ llm_pc' # "request" /\ ~answered'[Len(answered')]
          => /\ tts_queue' = tts_queue
             /\ messages' = messages
             /\ llm_pc' = "loop"]_vars

\* C9 witness: the first request failed, the next text was taken from
\* llm_queue, answered, and its sentence is on tts_queue.
C9_Witness ==
    /\ answered = <<FALSE, TRUE>>
    /\ tts_queue # <<>>
    /\ ~IsEOS(tts_queue[1])
    /\ Len(AppendedRoles) = 2

\* C10: neither worker thread ends on an error: each is in its loop, or has
\* left it because shutdown_event is set.
C10_WorkersStayInLoop ==
    /\ tts_pc # "crashed"
    /\ llm_pc # "crashed"
    /\ tts_pc = "done" \/ llm_pc = "done" => shutdown_event

\* C11: the samples handed to ASR hold a voiced frame, and as long as no
\* voiced frame has arrived nothing is handed to ASR and self.messages is as
\* seeded.
C11_UtteranceHasVoicedFrame ==
    /\ asm_pc = "asr" => \E i \in 1..Len(samples) : samples[i].voiced
    /\ utterances = 0
       => /\ asm_pc \in {"idle", "exited"}
          /\ ~recording_started
          /\ messages = INITIAL_MESSAGES

\* C11 witness: an utterance with pre-roll and a trailing unvoiced frame is at
\* ASR, after unvoiced frames alone had left the assembler in PreActivation.
C11_Witness ==
    /\ asm_pc = "asr"
    /\ Len(samples) >= 2
    /\ ~samples[Len(samples)].voiced
    /\ \E i \in 1..Len(samples) : samples[i].voiced

\* C13: the pre-activation buffer never holds more than
\* BUFFER_SIZE // VAD_SIZE frames, and a put into a full buffer drops the
\* oldest frame and keeps the order of the others.
C13_BufferWithinCapacity ==
    /\ [](Len(buffer) <= conf.buffer_cap)
    /\ [][/\ buffer' # buffer
          /\ buffer' # <<>>
          /\ 0 < conf.buffer_cap
          /\ Len(buffer) = conf.buffer_cap
          => SubSeq(buffer', 1, Len(buffer') - 1) = Tail(buffer)]_vars

\* The number of unvoiced frames at the end of a list of frames.
RECURSIVE TrailingUnvoiced(_)
TrailingUnvoiced(frames) ==
    IF frames = <<>> \/ frames[Len(frames)].voiced
    THEN 0
    ELSE 1 + TrailingUnvoiced(SubSeq(frames, 1, Len(frames) - 1))

\* C12: gap_counter is the run of unvoiced frames that ends self.samples; the
\* samples are handed to ASR when that run is PAUSE_LIMIT // VAD_SIZE long and
\* not before, and a voiced frame in Recording sets gap_counter to 0 and
\* hands nothing to ASR.
C12_UtteranceEndsWithPause ==
    /\ [](/\ asm_pc \in {"idle", "asr"} /\ recording_started
             => gap_counter = TrailingUnvoiced(samples)
          /\ asm_pc = "asr" => TrailingUnvoiced(samples) = conf.pause_frames
          /\ asm_pc = "idle" /\ recording_started
             => TrailingUnvoiced(samples) < conf.pause_frames)
    /\ [][/\ recording_started
          /\ Len(samples') = Len(samples) + 1
          /\ samples'[Len(samples')].voiced
          => gap_counter' = 0 /\ asm_pc' = "idle"]_vars

\* C12 witness: the utterance at ASR has a voiced frame that followed an
\* unvoiced one in Recording.
C12_Witness ==
    /\ asm_pc = "asr"
    /\ conf.buffer_cap = 1
    /\ \E i \in 2..Len(samples) : samples[i].voiced /\ ~samples[i - 1].voiced

\* Within each turn the entries of items are in the order the LLM thread put
\* them, and nothing follows the <EOS> of its turn.
InOrder(items) ==
    \A i, j \in 1..Len(items) :
        i < j /\ items[i].turn = items[j].turn
        => /\ ~IsEOS(items[i])
           /\ IF IsEOS(items[j])
              THEN items[i].at <= items[j].at
              ELSE items[i].at < items[j].at

\* The entries the TTS thread has taken since its last commit, in the order
\* it took them, followed by the entries still on tts_queue.
TakenThenQueued ==
    handed \o (IF IsEOS(generated_text) THEN <<generated_text>> ELSE <<>>)
           \o tts_queue

\* C14: the TTS thread takes, and so plays, the sentences of a turn in the
\* order the LLM thread put them, and takes the <EOS> of the turn after them;
\* a clip that starts is the sentence taken last.
C14_SentencesPlayedInOrder ==
    /\ []InOrder(TakenThenQueued)
    /\ [][~stream.active /\ stream'.active
          => /\ handed # <<>>
             /\ generated_text = handed[Len(handed)]
             /\ stream'.turn = generated_text.turn]_vars

\* C14 witness: two sentences of one turn were taken and played, and the
\* <EOS> of the turn has been taken after them.
C14_Witness ==
    /\ tts_pc = "commit"
    /\ IsEOS(generated_text)
    /\ Len(handed) = 2
    /\ Len(assistant_text) = 2
    /\ handed[1].turn = generated_text.turn
    /\ handed[2].turn = generated_text.turn

\* C15: once shutdown_event is set, the LLM thread and the TTS thread end.
\* (The TTS thread is also ended by the exception of line 359.)
C15_ShutdownEndsWorkers ==
    shutdown_event ~> (llm_pc = "done" /\ tts_pc \in {"done", "crashed"})

\* C15 witness: both workers have left their loops after a shutdown that came
\* while sentences of an answered turn were still on tts_queue.
C15_Witness ==
    /\ shutdown_event
    /\ llm_pc = "done"
    /\ tts_pc = "done"
    /\ UserTurns >= 1
    /\ tts_queue # <<>>

\* C16: a sentence _process_sentence has put on tts_queue is left as it is
\* by the cleanup of _process_sentence: cleaning twice equals cleaning once.
C16_CleanupIdempotent ==
    \A i \in 1..Len(tts_queue) :
        tts_queue[i].kind = "str" /\ ~IsEOS(tts_queue[i])
        => CleanSentence(<<tts_queue[i].val>>) = tts_queue[i].val

\* C17: when _process_detected_audio puts a text on llm_queue,
\* self.processing is already True.
C17_FlagSetBeforeEnqueue ==
    [][Len(llm_queue') > Len(llm_queue) => processing']_vars

\* A str that the cleanup of _process_sentence can have produced: it ends
\* with the added space and holds no character outside the allowed class.
IsCleaned(item) ==
    /\ item.kind = "str"
    /\ item.val # <<>>
    /\ item.val[Len(item.val)] = " "
    /\ FilterChars(item.val) = item.val

\* C20: every entry of tts_queue other than <EOS> is a cleaned str, the rest
\* of the sentence at the end of the stream included, and nothing is put for
\* a turn after its <EOS>.
C20_ResidueFlushedThenEos ==
    /\ \A i \in 1..Len(tts_queue) :
          ~IsEOS(tts_queue[i]) => IsCleaned(tts_queue[i])
    /\ InOrder(tts_queue)

\* C18: no assistant turn is appended to self.messages while the LLM thread
\* is reading the list to render a prompt.
C18_NoAppendDuringRender ==
    [][/\ Len(messages') > Len(messages)
       /\ messages'[Len(messages')].role = "assistant"
       => ~(llm_pc = "render" /\ prompt # <<>>)]_vars

\* C19: an entry of tts_queue that was put for a turn after the TTS thread
\* replaced the queue during a clip of that turn is dropped when the TTS
\* thread takes it: it is not synthesized and does not finish a turn.
C19_EnqueueAfterDrainDiscarded ==
    [][/\ tts_pc = "get"
       /\ tts_queue # <<>>
       /\ tts_pc' # "get"
       /\ Head(tts_queue).turn <= drained
       => tts_pc' = "loop" /\ finished' = finished]_vars

\* The utterance state after reset(): nothing buffered, nothing collected.
UtteranceStateReset ==
    /\ buffer = <<>>
    /\ samples = <<>>
    /\ gap_counter = 0
    /\ ~recording_started

\* C21: the input stream is stopped while ASR runs, it is started again only
\* after reset(), on every branch _process_detected_audio goes from ASR to
\* reset(), and the stream is running whenever the main thread waits for the
\* next sample.
C21_CaptureStoppedAroundAsr ==
    /\ [](asm_pc = "asr" => ~capturing)
    /\ [](asm_pc = "idle" => capturing)
    /\ [][~capturing /\ capturing' => asm_pc = "start" /\ UtteranceStateReset]_vars
    /\ [][asm_pc = "asr" /\ asm_pc' \notin {"asr", "exited"}
          => asm_pc' \in {"set_flag", "reset"}]_vars

\* C22: when _process_detected_audio returns to the wait for the next sample,
\* and right after reset(), the buffer and the samples are empty, gap_counter
\* is 0 and recording_started is False; the samples stay empty until the next
\* voiced frame.
C22_ResetClearsUtteranceState ==
    /\ [](asm_pc = "idle" /\ ~recording_started => samples = <<>> /\ gap_counter = 0)
    /\ [](asm_pc = "start" => UtteranceStateReset)
    /\ [][asm_pc = "start" /\ asm_pc' = "idle" => UtteranceStateReset']_vars

\* C22 witness: the main thread is back at the wait for the next sample after
\* an utterance with pre-roll was handed to ASR and accepted.
C22_Witness ==
    /\ asm_pc = "idle"
    /\ capturing
    /\ utterances >= 1
    /\ llm_queue # <<>> \/ UserTurns >= 1
    /\ UtteranceStateReset

====
